---- MODULE Spec2Model ----
(***************************************************************************)
(* Model of the filter-and-aggregate pipeline of Code/dashboard.py: the    *)
(* two process-wide tables loaded at import time and the Dash callback     *)
(* update_dashboard(season, team, player).                                 *)
(*                                                                         *)
(* Representation.                                                         *)
(*  - A DataFrame is a record [obj, cols, rows]: obj is the identity of    *)
(*    the Python object (so that aliasing and copying are distinguishable),*)
(*    cols the set of column names, rows a sequence in row order.          *)
(*  - An element of rows is a run: N consecutive rows of the table that    *)
(*    agree on every modelled column and carry the consecutive game ids    *)
(*    GAME_ID .. GAME_ID+N-1.  N = 1 is a single row, so every table has   *)
(*    such a representation; runs keep the tables that reach the 30- and   *)
(*    100-game thresholds of the code small.                               *)
(*  - Team and player names are integers that stand for the rank of the    *)
(*    name in sorted order (pandas groupby sorts its keys).                *)
(*  - A float is an exact fraction <<num, den>> with den > 0; NaN is       *)
(*    <<0, 0>>.  Every comparison with NaN is false, as in IEEE 754.       *)
(***************************************************************************)
EXTENDS Integers, Sequences, FiniteSets, TLC

VARIABLES
    team_game_stats,    \* process-wide team table
    player_game_stats,  \* process-wide player table
    tie_order,          \* how the build's unstable sort orders equal keys
    sel,                \* arguments of the last update_dashboard call
    ret,                \* what the last update_dashboard call produced
    calls,              \* the invocations in progress: position, arguments,
                        \* returned value
    frames              \* the local variables df_team, df_player of each
                        \* invocation's frame

vars == <<team_game_stats, player_game_stats, tie_order, sel, ret, calls,
          frames>>

----------------------------------------------------------------------------
(* Program constants *)

TOP_N == 10
ARCHETYPE_MIN_GAMES == 30
ARCHETYPE_MIN_AVG_MIN == 8
SUCCESS_MIN_GAMES == 100
TWENTY_PLUS_PTS == 20

TEAM_COLUMNS ==
    {"SEASON", "NICKNAME", "CONFERENCE", "GAME_ID", "PTS", "WIN",
     "HOME_AWAY", "POINT_DIFF"}

PLAYER_COLUMNS ==
    {"SEASON", "PLAYER_NAME", "NICKNAME", "MINUTES_PLAYED", "PTS",
     "EFFICIENCY_SCORE", "GAME_ID"}

NA == "N/A"
NO_DATA_MSG == "No data for selected filters"

----------------------------------------------------------------------------
(* Floats as exact fractions *)

NaN == <<0, 0>>

IsNaN(a) == a[2] = 0

RECURSIVE GCD(_, _)
GCD(a, b) == IF b = 0 THEN a ELSE GCD(b, a % b)

Abs(n) == IF n < 0 THEN -n ELSE n

\* n / d in lowest terms; x / 0 is NaN
Frac(n, d) ==
    IF d = 0 THEN NaN
    ELSE LET g == GCD(Abs(n), Abs(d))
             s == IF d < 0 THEN -1 ELSE 1
         IN  <<(s * n) \div g, (s * d) \div g>>

Zero == <<0, 1>>

FMul(a, k) == IF IsNaN(a) THEN NaN ELSE Frac(a[1] * k, a[2])

FDiv(a, b) ==
    IF IsNaN(a) \/ IsNaN(b) THEN NaN ELSE Frac(a[1] * b[2], a[2] * b[1])

FEq(a, b) == ~IsNaN(a) /\ ~IsNaN(b) /\ a[1] * b[2] = b[1] * a[2]

FGe(a, b) == ~IsNaN(a) /\ ~IsNaN(b) /\ a[1] * b[2] >= b[1] * a[2]

FGt(a, b) == ~IsNaN(a) /\ ~IsNaN(b) /\ a[1] * b[2] > b[1] * a[2]

FLt(a, b) == FGt(b, a)

\* (a + b) / 2
FMid(a, b) ==
    IF IsNaN(a) \/ IsNaN(b) THEN NaN
    ELSE Frac(a[1] * b[2] + b[1] * a[2], 2 * a[2] * b[2])

RECURSIVE SumOver(_, _)
SumOver(f, S) ==
    IF S = {} THEN 0
    ELSE LET x == CHOOSE y \in S : TRUE
         IN  f[x] + SumOver(f, S \ {x})

----------------------------------------------------------------------------
(* DataFrame primitives *)

Idx(df) == DOMAIN df.rows

\* len(df): number of rows
RowCount(df) == SumOver([i \in Idx(df) |-> df.rows[i].N], Idx(df))

\* df.empty
Empty(df) == RowCount(df) = 0

\* a copy that is only another name for the same object
CopyAlias(df) == df

\* DataFrame.copy(): a new object with the same content
Copy(df) == [df EXCEPT !.obj = "local"]

\* the elements of a set of integers in ascending order
SortedSeq(S) ==
    LET rank == [k \in S |-> Cardinality({x \in S : x <= k})]
    IN  [j \in 1..Cardinality(S) |-> CHOOSE k \in S : rank[k] = j]

\* an indexing that loses the first row it should keep
BoolIndexSkipFirst(df, mask) ==
    LET K0 == {i \in Idx(df) : mask[i]}
        K  == {i \in K0 : \E k \in K0 : k < i}
        at == SortedSeq(K)
    IN  [obj  |-> "local",
         cols |-> df.cols,
         rows |-> [j \in DOMAIN at |-> df.rows[at[j]]]]

\* df[mask]: boolean indexing builds a new object holding the rows whose
\* mask entry is true, in their original order
BoolIndex(df, mask) ==
    LET K == {i \in Idx(df) : mask[i]}
        at == SortedSeq(K)
    IN  [obj  |-> "local",
         cols |-> df.cols,
         rows |-> [j \in DOMAIN at |-> df.rows[at[j]]]]

\* Series.isin(values), one entry per row
Isin(df, col, values) == [i \in Idx(df) |-> df.rows[i][col] \in values]

\* a test for None only (if x is not None)
TruthyNotNone(x) == x.given

\* truth value of a dropdown value: None and the empty list are falsy
Truthy(x) == x.given /\ x.values # {}

----------------------------------------------------------------------------
(* Ordering helpers *)

\* the pairs of S in lexicographic order; R2 ranks the second components
SortedPairs(S, R2) ==
    LET rank == [p \in S |->
                   Cardinality({q \in S : \/ q[1] < p[1]
                                          \/ q[1] = p[1] /\ R2[q[2]] <= R2[p[2]]})]
    IN  [j \in 1..Cardinality(S) |-> CHOOSE p \in S : rank[p] = j]

IntRank(S) == [v \in S |-> v]

\* "Away" < "Home" and "East" < "West" as strings
StrRank == [v \in {"Away", "Home", "East", "West"} |->
               IF v \in {"Away", "East"} THEN 1 ELSE 2]

\* Series.median() of the values f[k], k \in K, NaN skipped; NaN when
\* nothing is left
Median(f, K) ==
    LET D == {k \in K : ~IsNaN(f[k])}
        n == Cardinality(D)
        rank == [k \in D |->
                   Cardinality({j \in D : \/ FLt(f[j], f[k])
                                          \/ FEq(f[j], f[k]) /\ j <= k})]
        at(r) == f[CHOOSE k \in D : rank[k] = r]
    IN  IF n = 0 THEN NaN
        ELSE IF n % 2 = 1 THEN at((n + 1) \div 2)
        ELSE FMid(at(n \div 2), at(n \div 2 + 1))

\* the sort with ascending=False left out
SortAsc(s, by, tie) ==
    LET n == Len(s)
        before(j, i) == IF tie = "keep" THEN j < i ELSE j > i
        pos == [i \in 1..n |->
                  1 + Cardinality({j \in 1..n :
                                     \/ FLt(s[j][by], s[i][by])
                                     \/ FEq(s[j][by], s[i][by]) /\ before(j, i)})]
    IN  [r \in 1..n |-> s[CHOOSE i \in 1..n : pos[i] = r]]

\* sort_values(by, ascending=False): the default sort kind is quicksort,
\* which is not stable, so the order among rows with equal keys is either
\* the order they had (tie = "keep") or its reverse (tie = "reverse")
SortDesc(s, by, tie) ==
    LET n == Len(s)
        before(j, i) == IF tie = "keep" THEN j < i ELSE j > i
        pos == [i \in 1..n |->
                  1 + Cardinality({j \in 1..n :
                                     \/ FGt(s[j][by], s[i][by])
                                     \/ FEq(s[j][by], s[i][by]) /\ before(j, i)})]
    IN  [r \in 1..n |-> s[CHOOSE i \in 1..n : pos[i] = r]]

\* head(k)
Head_(s, k) == IF Len(s) <= k THEN s ELSE SubSeq(s, 1, k)

----------------------------------------------------------------------------
(* Group-by primitives *)

Keys(df, col) == {df.rows[i][col] : i \in Idx(df)}

Keys2(df, c1, c2) == {<<df.rows[i][c1], df.rows[i][c2]>> : i \in Idx(df)}

RowsWith(df, col, k) == {i \in Idx(df) : df.rows[i][col] = k}

RowsWith2(df, c1, c2, p) ==
    {i \in Idx(df) : df.rows[i][c1] = p[1] /\ df.rows[i][c2] = p[2]}

\* count of the rows of I
CountIn(df, I) == SumOver([i \in I |-> df.rows[i].N], I)

SumIn(df, col, I) ==
    SumOver([i \in I |-> df.rows[i][col] * df.rows[i].N], I)

\* mean of column col over the rows of I
MeanIn(df, col, I) == Frac(SumIn(df, col, I), CountIn(df, I))

\* max of column col over the rows of I (I not empty)
MaxIn(df, col, I) ==
    LET V == {df.rows[i][col] : i \in I}
    IN  CHOOSE m \in V : \A v \in V : v <= m

\* std (ddof = 1) of a column over the rows of I is NaN when I holds fewer
\* than two rows and a number otherwise; only that much of it is modelled
StdIn(df, I) == IF CountIn(df, I) < 2 THEN "NaN" ELSE "number"

\* idxmin in place of idxmax
IdxMin(f, K) ==
    CHOOSE k \in K : /\ \A j \in K : FGe(f[j], f[k])
                     /\ \A j \in K : j < k => FGt(f[j], f[k])

\* Series.idxmax(): the first key, in index order, whose value is the
\* largest; raises on an empty series
IdxMax(f, K) ==
    CHOOSE k \in K : /\ \A j \in K : FGe(f[k], f[j])
                     /\ \A j \in K : j < k => FGt(f[k], f[j])

----------------------------------------------------------------------------
(* update_dashboard: row filtering *)

Has(df, cs) == cs \subseteq df.cols

\* df_team after the season and team filters
FilterTeam(base, season, team) ==
    LET a == Copy(base)
        b == IF Truthy(season)
             THEN BoolIndex(a, Isin(a, "SEASON", season.values)) ELSE a
        c == IF Truthy(team)
             THEN BoolIndex(b, Isin(b, "NICKNAME", team.values)) ELSE b
    IN  c

\* the season filter left off the player table
FilterPlayerNoSeason(base, season, team, player) ==
    LET a == Copy(base)
        c == IF Truthy(team)
             THEN BoolIndex(a, Isin(a, "NICKNAME", team.values)) ELSE a
        d == IF Truthy(player)
             THEN BoolIndex(c, Isin(c, "PLAYER_NAME", player.values)) ELSE c
    IN  d

\* df_player after the season, team and player filters
FilterPlayer(base, season, team, player) ==
    LET a == Copy(base)
        b == IF Truthy(season)
             THEN BoolIndex(a, Isin(a, "SEASON", season.values)) ELSE a
        c == IF Truthy(team)
             THEN BoolIndex(b, Isin(b, "NICKNAME", team.values)) ELSE b
        d == IF Truthy(player)
             THEN BoolIndex(c, Isin(c, "PLAYER_NAME", player.values)) ELSE c
    IN  d

\* a filter on a column the table does not have raises KeyError
FilterRaises(T, P, season, team, player) ==
    \/ Truthy(season) /\ ~(Has(T, {"SEASON"}) /\ Has(P, {"SEASON"}))
    \/ Truthy(team) /\ ~(Has(T, {"NICKNAME"}) /\ Has(P, {"NICKNAME"}))
    \/ Truthy(player) /\ ~Has(P, {"PLAYER_NAME"})

----------------------------------------------------------------------------
(* update_dashboard: KPI cards *)

seasons_text(T) ==
    LET seasons == IF Has(T, {"SEASON"}) THEN Keys(T, "SEASON") ELSE {}
    IN  IF seasons = {} THEN [text |-> "All Seasons"]
        ELSE [text |-> "range",
              first |-> CHOOSE a \in seasons : \A b \in seasons : a <= b,
              last  |-> CHOOSE a \in seasons : \A b \in seasons : b <= a]

total_games(T) ==
    IF Has(T, {"GAME_ID"})
    THEN Cardinality(UNION {T.rows[i].GAME_ID .. (T.rows[i].GAME_ID + T.rows[i].N - 1)
                             : i \in Idx(T)})
    ELSE RowCount(T)

total_players(P) ==
    IF Has(P, {"PLAYER_NAME"}) THEN Cardinality(Keys(P, "PLAYER_NAME")) ELSE 0

avg_pts(T) ==
    IF ~Empty(T) /\ Has(T, {"PTS"}) THEN MeanIn(T, "PTS", Idx(T)) ELSE Zero

\* the rows of the other side
HomeRowsAway(T) == {i \in Idx(T) : T.rows[i].HOME_AWAY = "Away"}

HomeRows(T) == {i \in Idx(T) : T.rows[i].HOME_AWAY = "Home"}

home_win_rate(T) ==
    IF Has(T, {"HOME_AWAY"}) /\ HomeRows(T) # {}
    THEN FMul(MeanIn(T, "WIN", HomeRows(T)), 100)
    ELSE Zero

\* the WIN column is read without a guard once there are Home rows
KpiRaises(T) ==
    Has(T, {"HOME_AWAY"}) /\ HomeRows(T) # {} /\ ~Has(T, {"WIN"})

\* the team colour maps read df_team["NICKNAME"] outside any try
ColorMapsRaise(T) == ~Has(T, {"NICKNAME"})

\* the static colour table: a (primary, secondary) pair for each of the
\* thirty franchise names; every third name of the model stands for a name
\* the table does not hold
TEAM_COLORS ==
    [t \in {u \in 1..30 : u % 3 # 0} |-> <<<<"primary", t>>, <<"secondary", t>>>>]

default_team_color == <<"gray", 0>>

\* dict.get(key, default)
DictGet(d, key, default) == IF key \in DOMAIN d THEN d[key] ELSE default

\* one entry per team of df_team
team_primary_map(T) ==
    [t \in Keys(T, "NICKNAME") |->
        IF t \in DOMAIN TEAM_COLORS THEN TEAM_COLORS[t][1]
        ELSE default_team_color]

team_secondary_map(T) ==
    [t \in Keys(T, "NICKNAME") |->
        IF t \in DOMAIN TEAM_COLORS THEN TEAM_COLORS[t][2]
        ELSE default_team_color]

\* the most frequent value of the rows of I, the one met first in row
\* order when several are as frequent
ModeFirstSeen(df, col, I) ==
    LET V == {df.rows[i][col] : i \in I}
        count == [v \in V |-> CountIn(df, {i \in I : df.rows[i][col] = v})]
        M == {v \in V : \A w \in V : count[w] <= count[v]}
        first == [v \in M |-> CHOOSE i \in I : /\ df.rows[i][col] = v
                                               /\ \A j \in I : df.rows[j][col] = v => i <= j]
    IN  CHOOSE v \in M : \A w \in M : first[v] <= first[w]

\* Series.mode().iloc[0]: mode() returns the most frequent values in
\* sorted order, so the first of them is the smallest
Mode(df, col, I) ==
    LET V == {df.rows[i][col] : i \in I}
        count == [v \in V |-> CountIn(df, {i \in I : df.rows[i][col] = v})]
        M == {v \in V : \A w \in V : count[w] <= count[v]}
    IN  CHOOSE v \in M : \A w \in M : v <= w

\* team_mode of each group of df_player; None without a NICKNAME column
team_mode(P) ==
    [q \in Keys(P, "PLAYER_NAME") |->
        IF Has(P, {"NICKNAME"})
        THEN [none |-> FALSE,
              team |-> Mode(P, "NICKNAME", RowsWith(P, "PLAYER_NAME", q))]
        ELSE [none |-> TRUE, team |-> 0]]

\* the colours come from the maps built from df_team; the whole block is in
\* a try that leaves both maps empty
player_primary_map(T, P) ==
    IF ~Has(P, {"PLAYER_NAME"}) THEN <<>>
    ELSE LET m == team_mode(P)
         IN  [q \in Keys(P, "PLAYER_NAME") |->
                 IF m[q].none THEN default_team_color
                 ELSE DictGet(team_primary_map(T), m[q].team, default_team_color)]

player_secondary_map(T, P) ==
    IF ~Has(P, {"PLAYER_NAME"}) THEN <<>>
    ELSE LET m == team_mode(P)
             p == player_primary_map(T, P)
         IN  [q \in Keys(P, "PLAYER_NAME") |->
                 IF m[q].none THEN p[q]
                 ELSE DictGet(team_secondary_map(T), m[q].team, p[q])]

----------------------------------------------------------------------------
(* update_dashboard: badges *)

GroupMean(df, key, col) ==
    [k \in Keys(df, key) |-> MeanIn(df, col, RowsWith(df, key, k))]

\* an exception without a handler around it leaves the callback
EscapesNoTry(raised) == raised

\* try: ... except Exception: ... lets no exception raised inside escape
EscapesTry(raised) == FALSE

\* groupby(key)[col].mean().idxmax(), which raises on an empty series
IdxMaxOfMeans(df, key, col) ==
    IF ~Has(df, {key, col}) \/ Keys(df, key) = {}
    THEN [raised |-> TRUE, value |-> 0]
    ELSE [raised |-> FALSE,
          value |-> IdxMax(GroupMean(df, key, col), Keys(df, key))]

\* try: ... except Exception: "N/A"
TryOrNA(r) == IF r.raised THEN [na |-> TRUE, name |-> 0]
              ELSE [na |-> FALSE, name |-> r.value]

top_team(T) == TryOrNA(IdxMaxOfMeans(T, "NICKNAME", "WIN"))

top_player(P) == TryOrNA(IdxMaxOfMeans(P, "PLAYER_NAME", "EFFICIENCY_SCORE"))

BadgesRaise(T, P) ==
    \/ EscapesTry(IdxMaxOfMeans(T, "NICKNAME", "WIN").raised)
    \/ EscapesTry(IdxMaxOfMeans(P, "PLAYER_NAME", "EFFICIENCY_SCORE").raised)

----------------------------------------------------------------------------
(* update_dashboard: season trends (fig1 .. fig5) *)

season_scoring(T) ==
    LET ks == SortedSeq(Keys(T, "SEASON"))
    IN  [j \in DOMAIN ks |->
            [SEASON |-> ks[j],
             PTS |-> MeanIn(T, "PTS", RowsWith(T, "SEASON", ks[j]))]]

\* mean of col per (SEASON, NICKNAME) group
TeamSeasonMean(T, col) ==
    [p \in Keys2(T, "SEASON", "NICKNAME") |->
        MeanIn(T, col, RowsWith2(T, "SEASON", "NICKNAME", p))]

TeamsOfSeason(T, s) == {p \in Keys2(T, "SEASON", "NICKNAME") : p[1] = s}

\* the median over pairs is taken in key order of the teams
parity(T) ==
    LET ks == SortedSeq(Keys(T, "SEASON"))
        m  == TeamSeasonMean(T, "WIN")
    IN  [j \in DOMAIN ks |->
            [SEASON |-> ks[j],
             WIN |-> Median([t \in {p[2] : p \in TeamsOfSeason(T, ks[j])} |->
                                m[<<ks[j], t>>]],
                            {p[2] : p \in TeamsOfSeason(T, ks[j])})]]

home_away(T) ==
    LET ks == SortedPairs(Keys2(T, "SEASON", "HOME_AWAY"), StrRank)
    IN  [j \in DOMAIN ks |->
            [SEASON |-> ks[j][1], HOME_AWAY |-> ks[j][2],
             WIN |-> MeanIn(T, "WIN", RowsWith2(T, "SEASON", "HOME_AWAY", ks[j]))]]

team_avg(T) ==
    LET K  == Keys2(T, "SEASON", "NICKNAME")
        ks == SortedPairs(K, IntRank({p[2] : p \in K}))
    IN  [j \in DOMAIN ks |->
            [SEASON |-> ks[j][1], NICKNAME |-> ks[j][2],
             PTS |-> MeanIn(T, "PTS", RowsWith2(T, "SEASON", "NICKNAME", ks[j]))]]

league_avg(T) == season_scoring(T)

conf(T) ==
    LET ks == SortedPairs(Keys2(T, "SEASON", "CONFERENCE"), StrRank)
    IN  [j \in DOMAIN ks |->
            [SEASON |-> ks[j][1], CONFERENCE |-> ks[j][2],
             PTS |-> MeanIn(T, "PTS", RowsWith2(T, "SEASON", "CONFERENCE", ks[j]))]]

\* none of these group-bys is inside a try
TrendsRaise(T) ==
    ~Has(T, {"SEASON", "PTS", "NICKNAME", "WIN", "HOME_AWAY", "CONFERENCE"})

----------------------------------------------------------------------------
(* update_dashboard: team consistency (fig6) *)

\* groupby([SEASON, NICKNAME])[POINT_DIFF].std().groupby(SEASON).median():
\* one row per season of df_team; the median skips NaN and is NaN when the
\* std of every team of the season is NaN.  None when the try block raised.
consistency(T) ==
    IF ~Has(T, {"SEASON", "NICKNAME", "POINT_DIFF"})
    THEN [none |-> TRUE, rows |-> <<>>]
    ELSE LET ks == SortedSeq(Keys(T, "SEASON"))
         IN  [none |-> FALSE,
              rows |-> [j \in DOMAIN ks |->
                 [SEASON |-> ks[j],
                  POINT_DIFF |->
                     IF \A p \in TeamsOfSeason(T, ks[j]) :
                            StdIn(T, RowsWith2(T, "SEASON", "NICKNAME", p)) = "NaN"
                     THEN "NaN" ELSE "number"]]]

\* consistency is None or consistency.empty
ConsistencyEmpty(c) == c.none \/ Len(c.rows) = 0

fig6(T) == IF ConsistencyEmpty(consistency(T)) THEN "{}" ELSE "line"

team_consistency_msg(T) ==
    IF ConsistencyEmpty(consistency(T)) THEN NO_DATA_MSG ELSE ""

ConsistencyRaises(T) == EscapesTry(consistency(T).none)

----------------------------------------------------------------------------
(* update_dashboard: top-10 team rankings *)

team_success(T, tie) ==
    LET ks == SortedSeq(Keys(T, "NICKNAME"))
        g  == [j \in DOMAIN ks |->
                 [NICKNAME |-> ks[j],
                  WIN |-> MeanIn(T, "WIN", RowsWith(T, "NICKNAME", ks[j]))]]
    IN  Head_(SortDesc(g, "WIN", tie), TOP_N)

dominant_seasons(T, tie) ==
    LET K  == Keys2(T, "SEASON", "NICKNAME")
        ks == SortedPairs(K, IntRank({p[2] : p \in K}))
        g  == [j \in DOMAIN ks |->
                 [SEASON |-> ks[j][1], NICKNAME |-> ks[j][2],
                  WIN |-> MeanIn(T, "WIN",
                                 RowsWith2(T, "SEASON", "NICKNAME", ks[j])),
                  LABEL |-> [NICKNAME |-> ks[j][2], SEASON |-> ks[j][1]]]]
    IN  Head_(SortDesc(g, "WIN", tie), TOP_N)

----------------------------------------------------------------------------
(* update_dashboard: player archetypes (fig7) *)

\* steps 1 and 2: per-player aggregates, low-sample players removed
ArchetypeRetained(P) ==
    LET ks  == SortedSeq(Keys(P, "PLAYER_NAME"))
        agg == [j \in DOMAIN ks |->
                  LET I == RowsWith(P, "PLAYER_NAME", ks[j])
                  IN  [PLAYER_NAME |-> ks[j],
                       AVG_MIN |-> MeanIn(P, "MINUTES_PLAYED", I),
                       AVG_PTS |-> MeanIn(P, "PTS", I),
                       GAMES_PLAYED |-> CountIn(P, I)]]
    IN  SelectSeq(agg, LAMBDA r :
            /\ r.GAMES_PLAYED >= ARCHETYPE_MIN_GAMES
            /\ FGe(r.AVG_MIN, <<ARCHETYPE_MIN_AVG_MIN, 1>>))

\* step 3
WithPtsPerMin(a) ==
    [j \in DOMAIN a |->
        [PLAYER_NAME |-> a[j].PLAYER_NAME, AVG_MIN |-> a[j].AVG_MIN,
         AVG_PTS |-> a[j].AVG_PTS, GAMES_PLAYED |-> a[j].GAMES_PLAYED,
         PTS_PER_MIN |-> FDiv(a[j].AVG_PTS, a[j].AVG_MIN)]]

\* step 4
ColumnMedian(a, col) == Median([j \in DOMAIN a |-> a[j][col]], DOMAIN a)

\* the comparisons with > where the code has >=
assign_archetype_strict(row, usage_median, eff_median) ==
    IF FGt(row.AVG_MIN, usage_median) /\ FGt(row.PTS_PER_MIN, eff_median)
    THEN "High-Usage Stars"
    ELSE IF FGt(row.AVG_MIN, usage_median) /\ FLt(row.PTS_PER_MIN, eff_median)
    THEN "Volume Scorers"
    ELSE IF FLt(row.AVG_MIN, usage_median) /\ FGt(row.PTS_PER_MIN, eff_median)
    THEN "Efficient Role Players"
    ELSE "Low-Impact Bench Players"

\* step 5
assign_archetype(row, usage_median, eff_median) ==
    IF FGe(row.AVG_MIN, usage_median) /\ FGe(row.PTS_PER_MIN, eff_median)
    THEN "High-Usage Stars"
    ELSE IF FGe(row.AVG_MIN, usage_median) /\ FLt(row.PTS_PER_MIN, eff_median)
    THEN "Volume Scorers"
    ELSE IF FLt(row.AVG_MIN, usage_median) /\ FGe(row.PTS_PER_MIN, eff_median)
    THEN "Efficient Role Players"
    ELSE "Low-Impact Bench Players"

\* DataFrame.apply(assign_archetype, axis=1).  On a frame without rows
\* pandas calls the function once on a row of NaN to learn the result
\* type; assign_archetype returns a label for it (every comparison is
\* false), so the result is an empty Series and the assignment succeeds.
archetype_data(P) ==
    LET a  == WithPtsPerMin(ArchetypeRetained(P))
        um == ColumnMedian(a, "AVG_MIN")
        em == ColumnMedian(a, "PTS_PER_MIN")
    IN  [usage_median |-> um,
         eff_median |-> em,
         rows |-> [j \in DOMAIN a |->
            [PLAYER_NAME |-> a[j].PLAYER_NAME, AVG_MIN |-> a[j].AVG_MIN,
             AVG_PTS |-> a[j].AVG_PTS, GAMES_PLAYED |-> a[j].GAMES_PLAYED,
             PTS_PER_MIN |-> a[j].PTS_PER_MIN,
             ARCHETYPE |-> assign_archetype(a[j], um, em)]]]

ArchetypeRaises(P) == ~Has(P, {"PLAYER_NAME", "MINUTES_PLAYED", "PTS"})

----------------------------------------------------------------------------
(* update_dashboard: top-10 player rankings (fig8, fig_success_players, fig9) *)

\* df[col] = values: sets the column on the object df names
SetColumn(df, col) == [df EXCEPT !.cols = @ \cup {col}]

\* the value of the TWENTY_PLUS column on a row
TWENTY_PLUS(r) == IF r.PTS >= TWENTY_PLUS_PTS THEN 1 ELSE 0

scorers(P, tie) ==
    LET ks == SortedSeq(Keys(P, "PLAYER_NAME"))
        g  == [j \in DOMAIN ks |->
                 LET I == RowsWith(P, "PLAYER_NAME", ks[j])
                 IN  [PLAYER_NAME |-> ks[j],
                      TWENTY_PLUS |->
                         Frac(SumOver([i \in I |->
                                         TWENTY_PLUS(P.rows[i]) * P.rows[i].N], I),
                              CountIn(P, I))]]
    IN  Head_(SortDesc(g, "TWENTY_PLUS", tie), TOP_N)

player_success(P, tie) ==
    LET ks == SortedSeq(Keys(P, "PLAYER_NAME"))
        g  == [j \in DOMAIN ks |->
                 LET I == RowsWith(P, "PLAYER_NAME", ks[j])
                 IN  [PLAYER_NAME |-> ks[j],
                      AVG_EFF |-> MeanIn(P, "EFFICIENCY_SCORE", I),
                      GAMES |-> CountIn(P, I)]]
        m  == SelectSeq(g, LAMBDA r : r.GAMES >= SUCCESS_MIN_GAMES)
    IN  Head_(SortDesc(m, "AVG_EFF", tie), TOP_N)

top_games(P, tie) ==
    LET ks == SortedSeq(Keys(P, "PLAYER_NAME"))
        g  == [j \in DOMAIN ks |->
                 LET I == RowsWith(P, "PLAYER_NAME", ks[j])
                 IN  [PLAYER_NAME |-> ks[j],
                      BEST_EFF |-> <<MaxIn(P, "EFFICIENCY_SCORE", I), 1>>,
                      BEST_PTS |-> MaxIn(P, "PTS", I)]]
    IN  Head_(SortDesc(g, "BEST_EFF", tie), TOP_N)

PlayerRankingsRaise(P) == ~Has(P, {"PLAYER_NAME", "PTS", "EFFICIENCY_SCORE"})

----------------------------------------------------------------------------
(* The callback *)

NoneValue == [given |-> FALSE, values |-> {}]

ListValue(S) == [given |-> TRUE, values |-> S]

\* an exception that leaves update_dashboard before line 746
RaisesBeforeHighScorers(T, P, season, team, player) ==
    \/ FilterRaises(T, P, season, team, player)
    \/ KpiRaises(FilterTeam(T, season, team))
    \/ ColorMapsRaise(T)
    \/ BadgesRaise(FilterTeam(T, season, team),
                   FilterPlayer(P, season, team, player))
    \/ TrendsRaise(T)
    \/ ConsistencyRaises(FilterTeam(T, season, team))
    \/ ArchetypeRaises(P)

\* the Output ids of the callback decorator, in the order declared
OUTPUT_IDS ==
    <<"kpi_container", "badges_container", "season_scoring_trend",
      "league_parity", "home_away_trend", "team_vs_league", "east_west",
      "team_consistency", "team_consistency_msg", "player_archetypes",
      "high_scorers", "top_games", "most_successful_teams",
      "dominant_seasons", "most_successful_players">>

\* the variables of the return statement, in the order returned
RETURN_TUPLE ==
    <<"kpi_cards", "badges", "fig1", "fig2", "fig3", "fig4", "fig5", "fig6",
      "team_consistency_msg", "fig_success_teams", "fig_dominant_seasons",
      "fig7", "fig8", "fig_success_players", "fig9">>

\* the value of a variable of the callback: which component or chart it
\* is and the data it was built from; r holds the computed results
ValueOf(r, v) ==
    [var |-> v,
     data |->
        CASE v = "kpi_cards" -> <<r.seasons_text, r.total_games,
                                  r.total_players, r.avg_pts, r.home_win_rate>>
          [] v = "badges" -> <<r.top_team, r.top_player>>
          [] v = "fig1" -> r.season_scoring
          [] v = "fig2" -> r.parity
          [] v = "fig3" -> r.home_away
          [] v = "fig4" -> <<r.team_avg, r.league_avg>>
          [] v = "fig5" -> r.conf
          [] v = "fig6" -> <<r.fig6, r.consistency.rows>>
          [] v = "team_consistency_msg" -> r.team_consistency_msg
          [] v = "fig_success_teams" -> r.team_success
          [] v = "fig_dominant_seasons" -> r.dominant_seasons
          [] v = "fig7" -> r.archetype_data.rows
          [] v = "fig8" -> r.scorers
          [] v = "fig_success_players" -> r.player_success
          [] v = "fig9" -> r.top_games]

\* Dash gives the k-th returned value to the k-th declared Output
Returning(r) ==
    [f \in DOMAIN r \cup {"outputs"} |->
        IF f = "outputs"
        THEN [k \in DOMAIN OUTPUT_IDS |->
                [id |-> OUTPUT_IDS[k], value |-> ValueOf(r, RETURN_TUPLE[k])]]
        ELSE r[f]]

\* what lines 338-865 produce from the tables the filters produced
Results(tie, early, df_team, df_player, df_player2, late) ==
          IF early \/ late THEN [status |-> "raised"]
          ELSE Returning([status |-> "returned",
                df_team |-> df_team,
                df_player |-> df_player2,
                seasons_text |-> seasons_text(df_team),
                total_games |-> total_games(df_team),
                total_players |-> total_players(df_player),
                avg_pts |-> avg_pts(df_team),
                home_win_rate |-> home_win_rate(df_team),
                top_team |-> top_team(df_team),
                top_player |-> top_player(df_player),
                season_scoring |-> season_scoring(df_team),
                parity |-> parity(df_team),
                home_away |-> home_away(df_team),
                team_avg |-> team_avg(df_team),
                league_avg |-> league_avg(df_team),
                conf |-> conf(df_team),
                consistency |-> consistency(df_team),
                fig6 |-> fig6(df_team),
                team_consistency_msg |-> team_consistency_msg(df_team),
                team_success |-> team_success(df_team, tie),
                dominant_seasons |-> dominant_seasons(df_team, tie),
                archetype_data |-> archetype_data(df_player),
                scorers |-> scorers(df_player2, tie),
                player_success |-> player_success(df_player2, tie),
                top_games |-> top_games(df_player2, tie),
                team_primary_map |-> team_primary_map(df_team),
                team_secondary_map |-> team_secondary_map(df_team),
                player_primary_map |-> player_primary_map(df_team, df_player),
                player_secondary_map |->
                    player_secondary_map(df_team, df_player)])

\* lines 338-865 of the callback, on the tables the filters produced
update_dashboard_body(season, team, player, tie, early, df_team, df_player, df_player2, late) ==
    /\ sel' = [season |-> season, team |-> team, player |-> player]
    /\ UNCHANGED <<team_game_stats, tie_order, calls, frames>>
    /\ player_game_stats' =
          IF ~early /\ df_player.obj = player_game_stats.obj
          THEN SetColumn(player_game_stats, "TWENTY_PLUS")
          ELSE player_game_stats
    /\ ret' = Results(tie, early, df_team, df_player, df_player2, late)

\* the team table restricted to the teams of the selected players as well
update_dashboard_player_teams(season, team, player) ==
    update_dashboard_body(
        season, team, player, tie_order,
        RaisesBeforeHighScorers(team_game_stats, player_game_stats,
                                season, team, player),
        IF Truthy(player)
        THEN BoolIndex(FilterTeam(team_game_stats, season, team),
                       Isin(FilterTeam(team_game_stats, season, team), "NICKNAME",
                            Keys(FilterPlayer(player_game_stats, season, team,
                                              player), "NICKNAME")))
        ELSE FilterTeam(team_game_stats, season, team),
        FilterPlayer(player_game_stats, season, team, player),
        SetColumn(FilterPlayer(player_game_stats, season, team, player),
                  "TWENTY_PLUS"),
        PlayerRankingsRaise(
            SetColumn(FilterPlayer(player_game_stats, season, team, player),
                      "TWENTY_PLUS")))

update_dashboard(season, team, player) ==
    update_dashboard_body(
        season, team, player, tie_order,
        RaisesBeforeHighScorers(team_game_stats, player_game_stats,
                                season, team, player),
        FilterTeam(team_game_stats, season, team),
        FilterPlayer(player_game_stats, season, team, player),
        SetColumn(FilterPlayer(player_game_stats, season, team, player),
                  "TWENTY_PLUS"),
        PlayerRankingsRaise(
            SetColumn(FilterPlayer(player_game_stats, season, team, player),
                      "TWENTY_PLUS")))

----------------------------------------------------------------------------
(* The tables loaded at start-up *)

SEASONS == {2020, 2021}

MaxGroups == 11

\* one run of the team table
TeamRun(s, t, ha, w, n) ==
    [SEASON |-> s, NICKNAME |-> t,
     CONFERENCE |-> IF t % 2 = 1 THEN "East" ELSE "West",
     GAME_ID |-> 0, PTS |-> IF w = 1 THEN 110 ELSE 95, WIN |-> w,
     HOME_AWAY |-> ha, POINT_DIFF |-> IF w = 1 THEN 15 ELSE -15, N |-> n]

\* the games of team t, by kind of record
TeamProfile(k, t) ==
    CASE k = 1 -> <<TeamRun(2020, t, "Home", 0, 1)>>
      [] k = 2 -> <<TeamRun(2020, t, "Home", 1, 1),
                    TeamRun(2021, t, "Away", 0, 1)>>
      [] k = 3 -> <<TeamRun(2020, t, "Home", 1, 1 + (t % 3)),
                    TeamRun(2020, t, "Away", 0, 1)>>
      [] k = 4 -> <<TeamRun(2021, t, "Away", 1, 1),
                    TeamRun(2021, t, "Home", 0, 3)>>

\* one run of the player table
PlayerRun(s, q, t, m, pts, eff, n) ==
    [SEASON |-> s, PLAYER_NAME |-> q, NICKNAME |-> t, MINUTES_PLAYED |-> m,
     PTS |-> pts, EFFICIENCY_SCORE |-> eff, GAME_ID |-> 0, N |-> n]

\* the games of player q of team t, by kind of career
PlayerProfile(k, q, t) ==
    CASE k = 1 -> <<PlayerRun(2020, q, t, 30, 24, 20 + (q % 3), 100)>>
      [] k = 2 -> <<PlayerRun(2020, q, t, 10, 5, 3, 27 + q)>>
      [] k = 3 -> <<PlayerRun(2021, q, t, 7, 2, 1 + (q % 2), 30)>>
      [] k = 4 -> <<PlayerRun(2020, q, t, 20, 10, 8, 15),
                    PlayerRun(2021, q, t, 30, 30, 25, 15 + q)>>
      \* traded in mid-season: as many games for the next team as for t
      [] k = 5 -> <<PlayerRun(2021, q, 1 + (t % 3), 25, 12, 10, 50 + q),
                    PlayerRun(2021, q, t, 25, 12, 10, 50 + q)>>
      \* a long 2021 season for one team
      [] k = 6 -> <<PlayerRun(2021, q, t, 12, 8, 9, 100 + q)>>

RECURSIVE Concat(_, _)
Concat(f, n) == IF n = 0 THEN <<>> ELSE Concat(f, n - 1) \o f[n]

\* consecutive game ids, in row order
RECURSIVE NumberGames(_, _)
NumberGames(rows, next) ==
    IF rows = <<>> THEN <<>>
    ELSE <<[rows[1] EXCEPT !.GAME_ID = next]>>
         \o NumberGames(Tail(rows), next + rows[1].N)

ProfileChoices == {p \in [1..2 -> 1..4] : p[1] <= p[2]}

\* <<team profiles, player profiles>>
SmallProfiles == {<<p, p>> : p \in ProfileChoices}

TeamTable(n, prof) ==
    [obj  |-> "team_game_stats",
     cols |-> TEAM_COLUMNS,
     rows |-> NumberGames(
                Concat([t \in 1..n |-> TeamProfile(prof[1 + (t % 2)], t)], n), 1)]

PlayerTable(n, prof) ==
    [obj  |-> "player_game_stats",
     cols |-> PLAYER_COLUMNS,
     rows |-> NumberGames(
                Concat([q \in 1..n |->
                          PlayerProfile(prof[1 + (q % 2)], q, 1 + (q % 3))], n), 1)]

MaxSmall == 3

TIE_ORDERS == {"keep", "reverse"}

\* the number of invocations that may be in progress at once
MaxCalls == 2

CALLS == 1..MaxCalls

\* a frame that holds no local variable
NoLocals ==
    [df_team   |-> [obj |-> "unbound", cols |-> {}, rows |-> <<>>],
     df_player |-> [obj |-> "unbound", cols |-> {}, rows |-> <<>>]]

\* no invocation in progress
NoCalls ==
    /\ calls = [i \in CALLS |->
                  [pc |-> "idle", season |-> NoneValue, team |-> NoneValue,
                   player |-> NoneValue, out |-> [status |-> "none"]]]
    /\ frames = [f \in CALLS |-> NoLocals]

InitWith(Ns, Profs) ==
    /\ \E n \in Ns, prof \in Profs :
          /\ team_game_stats = TeamTable(n, prof[1])
          /\ player_game_stats = PlayerTable(n, prof[2])
    /\ tie_order \in TIE_ORDERS
    /\ sel = [season |-> NoneValue, team |-> NoneValue, player |-> NoneValue]
    /\ ret = [status |-> "none"]
    /\ NoCalls

\* tables of a few teams and players, every mix of records
Init == InitWith(0..MaxSmall, SmallProfiles)

\* tables with about TOP_N teams and players
WideProfiles == {<<3, 4>>, <<2, 3>>} \X {<<1, 1>>, <<1, 2>>, <<4, 1>>}

InitWide == InitWith(TOP_N..MaxGroups, WideProfiles)

\* tables whose file lacks one column
DropColumn(df, c) == [df EXCEPT !.cols = @ \ {c}]

ColsProfiles == {<<2, 3>>, <<1, 4>>}

InitCols ==
    /\ \E prof \in ColsProfiles,
          c \in TEAM_COLUMNS \cup {"none"}, d \in PLAYER_COLUMNS \cup {"none"} :
          /\ c = "none" \/ d = "none"
          /\ team_game_stats = DropColumn(TeamTable(MaxSmall, prof), c)
          /\ player_game_stats = DropColumn(PlayerTable(MaxSmall, prof), d)
    /\ tie_order \in TIE_ORDERS
    /\ sel = [season |-> NoneValue, team |-> NoneValue, player |-> NoneValue]
    /\ ret = [status |-> "none"]
    /\ NoCalls

SEASON_CHOICES == {NoneValue, ListValue({}), ListValue({2021})}

TEAM_CHOICES == {NoneValue, ListValue({}), ListValue({1, 2})}

PLAYER_CHOICES == {NoneValue, ListValue({}), ListValue({2, 3})}

Next ==
    \E season \in SEASON_CHOICES, team \in TEAM_CHOICES,
       player \in PLAYER_CHOICES :
        update_dashboard(season, team, player)

Spec == Init /\ [][Next]_vars

\* selections for the wide tables: nothing, one season, two teams, all
\* players but the first
WIDE_SEASON_CHOICES == {NoneValue, ListValue({2020})}

WIDE_TEAM_CHOICES == {NoneValue, ListValue({1, 2})}

WIDE_PLAYER_CHOICES == {NoneValue, ListValue(2..MaxGroups)}

NextWide ==
    \E season \in WIDE_SEASON_CHOICES, team \in WIDE_TEAM_CHOICES,
       player \in WIDE_PLAYER_CHOICES :
        update_dashboard(season, team, player)

SpecWide == InitWide /\ [][NextWide]_vars

SpecCols == InitCols /\ [][Next]_vars

\* tables of players with 2021 seasons and with two teams in a season
CareerProfiles ==
    {<<2, 4>>, <<1, 2>>} \X {<<1, 5>>, <<6, 5>>, <<5, 5>>, <<6, 1>>}

InitCareers == InitWith({MaxSmall}, CareerProfiles)

SpecCareers == InitCareers /\ [][Next]_vars

----------------------------------------------------------------------------
(* Invocations in progress at once: the server runs each callback request *)
(* on a thread of its own, so the statements of several update_dashboard  *)
(* invocations interleave                                                 *)

\* one frame shared by every invocation, as with module-level variables
FrameShared(i) == 1

\* df_team and df_player are local variables: each invocation has a frame
\* of its own
Frame(i) == i

\* a request arrives with its three dropdown values; the call starts with
\* a new frame
invoke(i, season, team, player) ==
    /\ calls[i].pc \in {"idle", "done"}
    /\ calls' = [calls EXCEPT ![i] =
                    [pc |-> "321", season |-> season, team |-> team,
                     player |-> player, out |-> [status |-> "none"]]]
    /\ frames' = [frames EXCEPT ![Frame(i)] = NoLocals]
    /\ UNCHANGED <<team_game_stats, player_game_stats, tie_order, sel, ret>>

\* line 321
copy_team(i) ==
    /\ calls[i].pc = "321"
    /\ frames' = [frames EXCEPT ![Frame(i)].df_team = Copy(team_game_stats)]
    /\ calls' = [calls EXCEPT ![i].pc = "322"]
    /\ UNCHANGED <<team_game_stats, player_game_stats, tie_order, sel, ret>>

\* line 322
copy_player(i) ==
    /\ calls[i].pc = "322"
    /\ frames' = [frames EXCEPT ![Frame(i)].df_player = Copy(player_game_stats)]
    /\ calls' = [calls EXCEPT ![i].pc = "324"]
    /\ UNCHANGED <<team_game_stats, player_game_stats, tie_order, sel, ret>>

\* reading a local variable that is not bound raises
Bound(df) == df.obj # "unbound"

\* one if block of lines 324-333: the tables of cs filtered on col when
\* the dropdown value x is truthy; an exception ends the invocation
filter_step(i, from, to, x, col, cs) ==
    LET f == frames[Frame(i)]
    IN  /\ calls[i].pc = from
        /\ IF ~Truthy(x)
           THEN /\ calls' = [calls EXCEPT ![i].pc = to]
                /\ UNCHANGED frames
           ELSE IF \E c \in cs : ~Bound(f[c]) \/ ~Has(f[c], {col})
           THEN /\ calls' = [calls EXCEPT ![i].pc = "done",
                                          ![i].out = [status |-> "raised"]]
                /\ frames' = [frames EXCEPT ![Frame(i)] = NoLocals]
           ELSE /\ calls' = [calls EXCEPT ![i].pc = to]
                /\ frames' = [frames EXCEPT ![Frame(i)] =
                      [c \in DOMAIN f |->
                          IF c \in cs
                          THEN BoolIndex(f[c], Isin(f[c], col, x.values))
                          ELSE f[c]]]
        /\ UNCHANGED <<team_game_stats, player_game_stats, tie_order, sel, ret>>

\* lines 324-326
filter_season(i) ==
    filter_step(i, "324", "328", calls[i].season, "SEASON",
                {"df_team", "df_player"})

\* lines 328-330
filter_team(i) ==
    filter_step(i, "328", "332", calls[i].team, "NICKNAME",
                {"df_team", "df_player"})

\* lines 332-333
filter_player(i) ==
    filter_step(i, "332", "338", calls[i].player, "PLAYER_NAME", {"df_player"})

\* an exception of lines 338-718 that no try catches
RaisesInAggregations(T, P) ==
    \/ ~Bound(T) \/ ~Bound(P)
    \/ KpiRaises(T)
    \/ ColorMapsRaise(T)
    \/ BadgesRaise(T, P)
    \/ TrendsRaise(T)
    \/ ConsistencyRaises(T)
    \/ ArchetypeRaises(P)

\* lines 338-865 on the tables of the frame; the frame ends with the call
aggregate(i, early, df_team, df_player) ==
    /\ calls[i].pc = "338"
    /\ calls' = [calls EXCEPT
          ![i].pc = "done",
          ![i].out = Results(tie_order, early, df_team, df_player,
                             SetColumn(df_player, "TWENTY_PLUS"),
                             PlayerRankingsRaise(
                                 SetColumn(df_player, "TWENTY_PLUS")))]
    /\ frames' = [frames EXCEPT ![Frame(i)] = NoLocals]
    /\ player_game_stats' =
          IF ~early /\ df_player.obj = player_game_stats.obj
          THEN SetColumn(player_game_stats, "TWENTY_PLUS")
          ELSE player_game_stats
    /\ UNCHANGED <<team_game_stats, tie_order, sel, ret>>

aggregate_and_return(i) ==
    aggregate(i,
              RaisesInAggregations(frames[Frame(i)].df_team,
                                   frames[Frame(i)].df_player),
              frames[Frame(i)].df_team, frames[Frame(i)].df_player)

\* the selections of the concurrent requests
CALL_CHOICES ==
    {<<NoneValue, NoneValue, NoneValue>>,
     <<ListValue({2021}), ListValue({1, 2}), NoneValue>>,
     <<NoneValue, NoneValue, ListValue({2, 3})>>}

NextCalls ==
    \E i \in CALLS :
        \/ \E c \in CALL_CHOICES : invoke(i, c[1], c[2], c[3])
        \/ copy_team(i)
        \/ copy_player(i)
        \/ filter_season(i)
        \/ filter_team(i)
        \/ filter_player(i)
        \/ aggregate_and_return(i)

CallsProfiles == {<<<<2, 4>>, <<6, 5>>>>}

InitCalls == InitWith({MaxSmall}, CallsProfiles)

SpecCalls == InitCalls /\ [][NextCalls]_vars

----------------------------------------------------------------------------
(* Properties *)

Called == ret.status # "none"

Returned == ret.status = "returned"

HasValues(x) == x.values # {}

RowSet(df) == {df.rows[i] : i \in Idx(df)}

TeamRowMatches(r) ==
    /\ HasValues(sel.season) => r.SEASON \in sel.season.values
    /\ HasValues(sel.team) => r.NICKNAME \in sel.team.values

PlayerRowMatches(r) ==
    /\ HasValues(sel.season) => r.SEASON \in sel.season.values
    /\ HasValues(sel.team) => r.NICKNAME \in sel.team.values
    /\ HasValues(sel.player) => r.PLAYER_NAME \in sel.player.values

\* C1: for every selection a row of the team table is kept in df_team iff
\* it matches the season and team constraints that have values, a row of
\* the player table is kept in df_player iff it matches the season, team
\* and player constraints that have values (None and the empty list
\* restrict nothing), and neither filtered table has more rows than its
\* base table.
C1_RowKeptIffMatches ==
    Returned =>
        /\ \A r \in RowSet(team_game_stats) :
              r \in RowSet(ret.df_team) <=> TeamRowMatches(r)
        /\ RowSet(ret.df_team) \subseteq RowSet(team_game_stats)
        /\ \A r \in RowSet(player_game_stats) :
              r \in RowSet(ret.df_player) <=> PlayerRowMatches(r)
        /\ RowSet(ret.df_player) \subseteq RowSet(player_game_stats)
        /\ RowCount(ret.df_team) <= RowCount(team_game_stats)
        /\ RowCount(ret.df_player) <= RowCount(player_game_stats)

\* all three constraints given, each table loses rows and keeps rows
C1_Witness ==
    /\ Returned
    /\ HasValues(sel.season) /\ HasValues(sel.team) /\ HasValues(sel.player)
    /\ 0 < RowCount(ret.df_team)
    /\ RowCount(ret.df_team) < RowCount(team_game_stats)
    /\ 0 < RowCount(ret.df_player)
    /\ RowCount(ret.df_player) < RowCount(player_game_stats)

\* C2: no update_dashboard call changes the rows or the columns of the
\* process-wide tables team_game_stats and player_game_stats.
C2_BaseTablesUnchanged ==
    [][/\ team_game_stats' = team_game_stats
       /\ player_game_stats' = player_game_stats]_vars

\* a call without any filter added TWENTY_PLUS to its own df_player only
C2_Witness ==
    /\ Returned
    /\ ~HasValues(sel.season) /\ ~HasValues(sel.team) /\ ~HasValues(sel.player)
    /\ "TWENTY_PLUS" \in ret.df_player.cols
    /\ "TWENTY_PLUS" \notin player_game_stats.cols
    /\ ret.df_player.rows = player_game_stats.rows
    /\ ~Empty(player_game_stats)

TeamOutputsEmpty ==
    /\ ret.seasons_text = [text |-> "All Seasons"]
    /\ ret.total_games = 0
    /\ ret.avg_pts = Zero
    /\ ret.home_win_rate = Zero
    /\ ret.top_team.na
    /\ ret.season_scoring = <<>> /\ ret.parity = <<>>
    /\ ret.home_away = <<>> /\ ret.team_avg = <<>> /\ ret.league_avg = <<>>
    /\ ret.conf = <<>>
    /\ ret.fig6 = "{}" /\ ret.team_consistency_msg = NO_DATA_MSG
    /\ ret.team_success = <<>> /\ ret.dominant_seasons = <<>>

PlayerOutputsEmpty ==
    /\ ret.total_players = 0
    /\ ret.top_player.na
    /\ ret.archetype_data.rows = <<>>
    /\ IsNaN(ret.archetype_data.usage_median)
    /\ IsNaN(ret.archetype_data.eff_median)
    /\ ret.scorers = <<>> /\ ret.player_success = <<>> /\ ret.top_games = <<>>

\* C3: a call whose filtered team table or filtered player table has no
\* rows still returns, and the outputs computed from the empty table are
\* the empty tables, zeros and sentinels.
C3_EmptyTablesDegrade ==
    Called =>
        LET T == FilterTeam(team_game_stats, sel.season, sel.team)
            P == FilterPlayer(player_game_stats, sel.season, sel.team,
                              sel.player)
        IN  (Empty(T) \/ Empty(P)) =>
                /\ Returned
                /\ Empty(T) => TeamOutputsEmpty
                /\ Empty(P) => PlayerOutputsEmpty

\* both filtered tables are empty although both base tables have rows
C3_Witness ==
    /\ Returned
    /\ ~Empty(team_game_stats) /\ ~Empty(player_game_stats)
    /\ Empty(ret.df_team) /\ Empty(ret.df_player)
    /\ ret.top_team.na /\ ret.top_player.na

\* C4: a failure inside one aggregation never keeps the call from
\* returning the other aggregations: a call in which the filter, the KPI
\* cards and the colour maps do not fail returns its outputs.
C4_AggregationFailureIsolated ==
    (/\ Called
     /\ ~FilterRaises(team_game_stats, player_game_stats,
                      sel.season, sel.team, sel.player)
     /\ ~KpiRaises(FilterTeam(team_game_stats, sel.season, sel.team))
     /\ ~ColorMapsRaise(team_game_stats))
    => Returned

GroupsOfTeamTable(T) == Keys2(T, "SEASON", "NICKNAME")

GamesOfGroup(T, p) ==
    SumOver([i \in Idx(T) |-> T.rows[i].N],
            {i \in Idx(T) : T.rows[i].SEASON = p[1] /\ T.rows[i].NICKNAME = p[2]})

\* C5: when every (season, team) group of the filtered team table has
\* exactly one game, the consistency result is empty or absent, the
\* team_consistency figure is the empty figure and team_consistency_msg is
\* the no-data message.
C5_SingleGameGroupsGiveNoData ==
    (/\ Returned
     /\ ~Empty(ret.df_team)
     /\ \A p \in GroupsOfTeamTable(ret.df_team) :
            GamesOfGroup(ret.df_team, p) = 1)
    => /\ ret.consistency.none \/ ret.consistency.rows = <<>>
       /\ ret.fig6 = "{}"
       /\ ret.team_consistency_msg = NO_DATA_MSG

HomeRowsOfResult ==
    {i \in Idx(ret.df_team) : ret.df_team.rows[i].HOME_AWAY = "Home"}

RateInRange ==
    /\ ~IsNaN(ret.home_win_rate)
    /\ 0 <= ret.home_win_rate[1]
    /\ ret.home_win_rate[1] <= 100 * ret.home_win_rate[2]

\* C6 as stated: the home win rate lies in [0, 100] and is 0 exactly when
\* the filtered team table has no Home row.
C6_ZeroIffNoHomeRows ==
    Returned =>
        /\ RateInRange
        /\ ret.home_win_rate[1] = 0 <=> HomeRowsOfResult = {}

\* C6: the home win rate lies in [0, 100] and is 0 exactly when the
\* filtered team table has no Home row that is a win (in particular when
\* it has no Home row).
C6_ZeroIffNoHomeWins ==
    Returned =>
        /\ RateInRange
        /\ ret.home_win_rate[1] = 0 <=>
              \A i \in HomeRowsOfResult : ret.df_team.rows[i].WIN = 0

\* Home rows are left after filtering, all of them losses
C6_Witness ==
    /\ Returned
    /\ HomeRowsOfResult # {}
    /\ \A i \in HomeRowsOfResult : ret.df_team.rows[i].WIN = 0
    /\ ret.home_win_rate = Zero

PlayersOfResult == {ret.df_player.rows[i].PLAYER_NAME : i \in Idx(ret.df_player)}

RowsOfPlayer(q) ==
    {i \in Idx(ret.df_player) : ret.df_player.rows[i].PLAYER_NAME = q}

GamesOfPlayer(q) ==
    SumOver([i \in Idx(ret.df_player) |-> ret.df_player.rows[i].N],
            RowsOfPlayer(q))

TotalOfPlayer(q, col) ==
    SumOver([i \in Idx(ret.df_player) |->
                ret.df_player.rows[i][col] * ret.df_player.rows[i].N],
            RowsOfPlayer(q))

\* m is the median of the values v[j], j \in D
IsMedianOf(m, v, D) ==
    LET n == Cardinality(D)
        below(x, J) == Cardinality({j \in J : FGe(x, v[j])})
        above(x, J) == Cardinality({j \in J : FGe(v[j], x)})
    IN  IF n = 0 THEN IsNaN(m)
        ELSE IF n % 2 = 1
        THEN \E i \in D : /\ FEq(m, v[i])
                          /\ below(v[i], D) >= (n + 1) \div 2
                          /\ above(v[i], D) >= (n + 1) \div 2
        ELSE \E i, j \in D :
                /\ i # j /\ FGe(v[j], v[i])
                /\ FEq(m, FMid(v[i], v[j]))
                /\ below(v[i], D \ {i, j}) >= n \div 2 - 1
                /\ above(v[j], D \ {i, j}) >= n \div 2 - 1

LabelByMedians(r, um, em) ==
    CASE FGe(r.AVG_MIN, um) /\ FGe(r.PTS_PER_MIN, em) -> "High-Usage Stars"
      [] FGe(r.AVG_MIN, um) /\ ~FGe(r.PTS_PER_MIN, em) -> "Volume Scorers"
      [] ~FGe(r.AVG_MIN, um) /\ FGe(r.PTS_PER_MIN, em) -> "Efficient Role Players"
      [] OTHER -> "Low-Impact Bench Players"

\* C7: the archetype table holds, once each, exactly the players of the
\* filtered player table with at least 30 games and at least 8 average
\* minutes, and the label of each is the one the table of section 4.4
\* gives for its average minutes and points per minute against the medians
\* of the retained players, a value equal to a median counting as >=.
C7_ArchetypesPartitionRetained ==
    Returned =>
        LET A  == ret.archetype_data.rows
            um == ret.archetype_data.usage_median
            em == ret.archetype_data.eff_median
            retained ==
                {q \in PlayersOfResult :
                    /\ GamesOfPlayer(q) >= ARCHETYPE_MIN_GAMES
                    /\ TotalOfPlayer(q, "MINUTES_PLAYED")
                          >= ARCHETYPE_MIN_AVG_MIN * GamesOfPlayer(q)}
        IN  /\ {A[j].PLAYER_NAME : j \in DOMAIN A} = retained
            /\ Len(A) = Cardinality(retained)
            /\ \A j \in DOMAIN A :
                  LET q == A[j].PLAYER_NAME
                  IN  /\ FEq(A[j].AVG_MIN,
                             <<TotalOfPlayer(q, "MINUTES_PLAYED"), GamesOfPlayer(q)>>)
                      /\ FEq(A[j].PTS_PER_MIN,
                             <<TotalOfPlayer(q, "PTS"),
                               TotalOfPlayer(q, "MINUTES_PLAYED")>>)
            /\ IsMedianOf(um, [j \in DOMAIN A |-> A[j].AVG_MIN], DOMAIN A)
            /\ IsMedianOf(em, [j \in DOMAIN A |-> A[j].PTS_PER_MIN], DOMAIN A)
            /\ \A j \in DOMAIN A :
                  A[j].ARCHETYPE = LabelByMedians(A[j], um, em)

\* some player is left out, two labels occur, and a player whose average
\* minutes equal the median sits on the >= side
C7_Witness ==
    /\ Returned
    /\ LET A == ret.archetype_data.rows
       IN  /\ Len(A) >= 2
           /\ Len(A) < Cardinality(PlayersOfResult)
           /\ \E i, j \in DOMAIN A : A[i].ARCHETYPE # A[j].ARCHETYPE
           /\ \E j \in DOMAIN A :
                 /\ FEq(A[j].AVG_MIN, ret.archetype_data.usage_median)
                 /\ A[j].ARCHETYPE \in {"High-Usage Stars", "Volume Scorers"}

Min(a, b) == IF a <= b THEN a ELSE b

\* keys and vals are the first TOP_N of the groups DOMAIN m in
\* non-increasing order of their metric m
IsTopN(keys, vals, m) ==
    LET Q == DOMAIN m
    IN  /\ Len(keys) <= TOP_N
        /\ Len(keys) = Min(TOP_N, Cardinality(Q))
        /\ \A j \in DOMAIN keys : keys[j] \in Q /\ FEq(vals[j], m[keys[j]])
        /\ \A i, j \in DOMAIN keys : i # j => keys[i] # keys[j]
        /\ \A j \in DOMAIN keys : j > 1 => FGe(vals[j - 1], vals[j])
        /\ \A q \in Q : (\A j \in DOMAIN keys : keys[j] # q) =>
                            \A j \in DOMAIN keys : FGe(vals[j], m[q])

TeamsOfResult == {ret.df_team.rows[i].NICKNAME : i \in Idx(ret.df_team)}

\* wins / games over the rows of I
WinRate(I) ==
    <<SumOver([i \in Idx(ret.df_team) |->
                 ret.df_team.rows[i].WIN * ret.df_team.rows[i].N], I),
      SumOver([i \in Idx(ret.df_team) |-> ret.df_team.rows[i].N], I)>>

WinRateOfTeam ==
    [t \in TeamsOfResult |->
        WinRate({i \in Idx(ret.df_team) : ret.df_team.rows[i].NICKNAME = t})]

WinRateOfTeamSeason ==
    [p \in GroupsOfTeamTable(ret.df_team) |->
        WinRate({i \in Idx(ret.df_team) :
                    /\ ret.df_team.rows[i].SEASON = p[1]
                    /\ ret.df_team.rows[i].NICKNAME = p[2]})]

CareerPlayers == {q \in PlayersOfResult : GamesOfPlayer(q) >= SUCCESS_MIN_GAMES}

EfficiencyOfPlayer ==
    [q \in CareerPlayers |->
        <<TotalOfPlayer(q, "EFFICIENCY_SCORE"), GamesOfPlayer(q)>>]

TwentyPlusShare ==
    [q \in PlayersOfResult |->
        <<SumOver([i \in Idx(ret.df_player) |->
                      IF ret.df_player.rows[i].PTS >= 20
                      THEN ret.df_player.rows[i].N ELSE 0], RowsOfPlayer(q)),
          GamesOfPlayer(q)>>]

BestEfficiency ==
    [q \in PlayersOfResult |->
        LET V == {ret.df_player.rows[i].EFFICIENCY_SCORE : i \in RowsOfPlayer(q)}
        IN  <<CHOOSE m \in V : \A v \in V : v <= m, 1>>]

Column(t, col) == [j \in DOMAIN t |-> t[j][col]]

\* C8: each of the five top-10 tables has at most 10 rows, all qualifying
\* groups when there are fewer than 10, in non-increasing order of its
\* metric, and no qualifying group left out has a larger metric than a
\* returned one.
C8_TopTenRankings ==
    Returned =>
        /\ IsTopN(Column(ret.team_success, "NICKNAME"),
                  Column(ret.team_success, "WIN"), WinRateOfTeam)
        /\ IsTopN([j \in DOMAIN ret.dominant_seasons |->
                      <<ret.dominant_seasons[j].SEASON,
                        ret.dominant_seasons[j].NICKNAME>>],
                  Column(ret.dominant_seasons, "WIN"), WinRateOfTeamSeason)
        /\ IsTopN(Column(ret.player_success, "PLAYER_NAME"),
                  Column(ret.player_success, "AVG_EFF"), EfficiencyOfPlayer)
        /\ IsTopN(Column(ret.scorers, "PLAYER_NAME"),
                  Column(ret.scorers, "TWENTY_PLUS"), TwentyPlusShare)
        /\ IsTopN(Column(ret.top_games, "PLAYER_NAME"),
                  Column(ret.top_games, "BEST_EFF"), BestEfficiency)

\* more than ten groups qualify for every ranking, and the rankings of
\* teams and of players are not all ties
C8_Witness ==
    /\ Returned
    /\ Cardinality(TeamsOfResult) > TOP_N
    /\ Cardinality(GroupsOfTeamTable(ret.df_team)) > TOP_N
    /\ Cardinality(CareerPlayers) > TOP_N
    /\ Len(ret.team_success) = TOP_N /\ Len(ret.dominant_seasons) = TOP_N
    /\ Len(ret.player_success) = TOP_N /\ Len(ret.scorers) = TOP_N
    /\ Len(ret.top_games) = TOP_N
    /\ FGt(ret.team_success[1].WIN, ret.team_success[TOP_N].WIN)
    /\ FGt(ret.player_success[1].AVG_EFF, ret.player_success[TOP_N].AVG_EFF)

EfficiencyOfAnyPlayer ==
    [q \in PlayersOfResult |->
        <<TotalOfPlayer(q, "EFFICIENCY_SCORE"), GamesOfPlayer(q)>>]

\* C9: the team badge names a team of the filtered team table whose mean
\* win rate no other team exceeds, the player badge a player of the
\* filtered player table whose mean efficiency score no other player
\* exceeds; a filtered table without groups gives the badge N/A, and the
\* call returns.
C9_Badges ==
    /\ Returned =>
          /\ ret.top_team.na <=> TeamsOfResult = {}
          /\ ~ret.top_team.na =>
                /\ ret.top_team.name \in TeamsOfResult
                /\ \A t \in TeamsOfResult :
                      FGe(WinRateOfTeam[ret.top_team.name], WinRateOfTeam[t])
          /\ ret.top_player.na <=> PlayersOfResult = {}
          /\ ~ret.top_player.na =>
                /\ ret.top_player.name \in PlayersOfResult
                /\ \A q \in PlayersOfResult :
                      FGe(EfficiencyOfAnyPlayer[ret.top_player.name],
                          EfficiencyOfAnyPlayer[q])
    /\ (/\ Called
        /\ \/ Empty(FilterTeam(team_game_stats, sel.season, sel.team))
           \/ Empty(FilterPlayer(player_game_stats, sel.season, sel.team,
                                 sel.player)))
       => Returned

\* the team badge beats another team while the player badge is N/A
C9_Witness ==
    /\ Returned
    /\ ~ret.top_team.na
    /\ \E t \in TeamsOfResult :
          FGt(WinRateOfTeam[ret.top_team.name], WinRateOfTeam[t])
    /\ ret.top_player.na
    /\ ~Empty(player_game_stats)

\* C10: filtering the filtered tables again by the same selection returns
\* them unchanged.
C10_FilterIdempotent ==
    Returned =>
        /\ FilterTeam(ret.df_team, sel.season, sel.team) = ret.df_team
        /\ FilterPlayer(ret.df_player, sel.season, sel.team, sel.player)
              = ret.df_player

\* the filters removed rows from both tables and left rows in both
C10_Witness ==
    /\ Returned
    /\ HasValues(sel.season) /\ HasValues(sel.team)
    /\ ret.df_team.rows # <<>>
    /\ Len(ret.df_team.rows) < Len(team_game_stats.rows)
    /\ ret.df_player.rows # <<>>
    /\ Len(ret.df_player.rows) < Len(player_game_stats.rows)

\* the teams of the rows of player q in the filtered player table
TeamsOfPlayer(q) == {ret.df_player.rows[i].NICKNAME : i \in RowsOfPlayer(q)}

GamesOfPlayerFor(q, t) ==
    SumOver([i \in Idx(ret.df_player) |-> ret.df_player.rows[i].N],
            {i \in RowsOfPlayer(q) : ret.df_player.rows[i].NICKNAME = t})

MostFrequentTeams(q) ==
    {t \in TeamsOfPlayer(q) :
        \A u \in TeamsOfPlayer(q) : GamesOfPlayerFor(q, u) <= GamesOfPlayerFor(q, t)}

FirstRowFor(q, t) ==
    CHOOSE i \in RowsOfPlayer(q) :
        /\ ret.df_player.rows[i].NICKNAME = t
        /\ \A j \in RowsOfPlayer(q) :
              ret.df_player.rows[j].NICKNAME = t => i <= j

\* the most frequent team of q met first in row order
FirstSeenTeam(q) ==
    CHOOSE t \in MostFrequentTeams(q) :
        \A u \in MostFrequentTeams(q) : FirstRowFor(q, t) <= FirstRowFor(q, u)

\* the most frequent team of q whose name sorts first
SmallestTeam(q) ==
    CHOOSE t \in MostFrequentTeams(q) : \A u \in MostFrequentTeams(q) : t <= u

Gray == <<"gray", 0>>

\* the pair of the static table, gray twice for a name it does not hold
StaticPair(t) ==
    IF t % 3 # 0 THEN <<<<"primary", t>>, <<"secondary", t>>>> ELSE <<Gray, Gray>>

PlayerPair(q) == <<ret.player_primary_map[q], ret.player_secondary_map[q]>>

\* C11 as claimed: every player of the filtered player table has the
\* colour pair of the most frequent team of the player's filtered rows, the
\* team met first in row order when several are as frequent, and gray twice
\* when the static table has no entry for that team.
C11_ColourOfFirstSeenModeTeam ==
    Returned =>
        /\ DOMAIN ret.player_primary_map = PlayersOfResult
        /\ DOMAIN ret.player_secondary_map = PlayersOfResult
        /\ \A q \in PlayersOfResult : PlayerPair(q) = StaticPair(FirstSeenTeam(q))

\* C11 amended: every player of the filtered player table has the colour
\* pair of the most frequent team of the player's filtered rows, the team
\* whose name sorts first when several are as frequent, and gray twice when
\* that team has no entry in the static table or no row in the filtered
\* team table.
C11_ColourOfSmallestModeTeam ==
    Returned =>
        /\ DOMAIN ret.player_primary_map = PlayersOfResult
        /\ DOMAIN ret.player_secondary_map = PlayersOfResult
        /\ \A q \in PlayersOfResult :
              PlayerPair(q) = IF SmallestTeam(q) \in TeamsOfResult
                              THEN StaticPair(SmallestTeam(q))
                              ELSE <<Gray, Gray>>

\* a player with two equally frequent teams has the colours of the one
\* that sorts first, which is not the one met first, and another player
\* is gray
C11_Witness ==
    /\ Returned
    /\ \E q \in PlayersOfResult :
          /\ Cardinality(MostFrequentTeams(q)) = 2
          /\ SmallestTeam(q) # FirstSeenTeam(q)
          /\ PlayerPair(q) = StaticPair(SmallestTeam(q))
          /\ PlayerPair(q) # <<Gray, Gray>>
          /\ StaticPair(FirstSeenTeam(q)) # <<Gray, Gray>>
    /\ \E q \in PlayersOfResult : PlayerPair(q) = <<Gray, Gray>>

BasePlayers == {player_game_stats.rows[i].PLAYER_NAME : i \in Idx(player_game_stats)}

\* the players none of whose rows matches the selection
PlayersWithoutRows ==
    {q \in BasePlayers :
        \A r \in RowSet(player_game_stats) :
            r.PLAYER_NAME = q => ~PlayerRowMatches(r)}

\* C12: a player none of whose rows passes the filters is in neither the
\* player-success table nor the archetype table, and total_players is the
\* number of distinct player names of the filtered player table, which does
\* not count that player.
C12_FilteredOutPlayerOmitted ==
    Returned =>
        /\ \A q \in PlayersWithoutRows :
              /\ \A j \in DOMAIN ret.player_success :
                    ret.player_success[j].PLAYER_NAME # q
              /\ \A j \in DOMAIN ret.archetype_data.rows :
                    ret.archetype_data.rows[j].PLAYER_NAME # q
        /\ ret.total_players = Cardinality(PlayersOfResult)
        /\ ret.total_players = Cardinality(BasePlayers \ PlayersWithoutRows)

\* the 2021 selection removes a player who has a hundred games in 2020,
\* and both tables hold another player
C12_Witness ==
    /\ Returned
    /\ sel.season = ListValue({2021}) /\ ~HasValues(sel.team)
    /\ ~HasValues(sel.player)
    /\ \E q \in PlayersWithoutRows :
          SumOver([i \in Idx(player_game_stats) |-> player_game_stats.rows[i].N],
                  {i \in Idx(player_game_stats) :
                      player_game_stats.rows[i].PLAYER_NAME = q})
             >= SUCCESS_MIN_GAMES
    /\ ret.player_success # <<>> /\ ret.archetype_data.rows # <<>>
    /\ ret.total_players < Cardinality(BasePlayers)

\* what a returned call computed from the filtered team table
TeamResults(r) ==
    <<r.df_team, r.seasons_text, r.total_games, r.avg_pts, r.home_win_rate,
      r.top_team, r.season_scoring, r.parity, r.home_away, r.team_avg,
      r.league_avg, r.conf, r.consistency, r.fig6, r.team_consistency_msg,
      r.team_success, r.dominant_seasons, r.team_primary_map,
      r.team_secondary_map>>

\* C15: a call that has the season and team selections of the call before
\* it returns if that call returned, with the same filtered team table and
\* the same results derived from it, whatever the two player selections.
C15_PlayerSelectionLeavesTeamResults ==
    [][(/\ Returned
        /\ sel'.season = sel.season
        /\ sel'.team = sel.team)
       => /\ Returned'
          /\ TeamResults(ret') = TeamResults(ret)]_vars

\* a player selection removed player rows and left a team table with the
\* teams of other players in it
C15_Witness ==
    /\ Returned
    /\ HasValues(sel.player)
    /\ RowCount(ret.df_player) > 0
    /\ RowCount(ret.df_player) < RowCount(player_game_stats)
    /\ \E t \in TeamsOfResult :
          \A i \in Idx(ret.df_player) : ret.df_player.rows[i].NICKNAME # t
    /\ ret.df_team.rows = FilterTeam(team_game_stats, sel.season, sel.team).rows

\* the result each declared output is named after
ResultNamed ==
    [id \in {OUTPUT_IDS[k] : k \in DOMAIN OUTPUT_IDS} |->
        CASE id = "kpi_container" -> "kpi_cards"
          [] id = "badges_container" -> "badges"
          [] id = "season_scoring_trend" -> "fig1"
          [] id = "league_parity" -> "fig2"
          [] id = "home_away_trend" -> "fig3"
          [] id = "team_vs_league" -> "fig4"
          [] id = "east_west" -> "fig5"
          [] id = "team_consistency" -> "fig6"
          [] id = "team_consistency_msg" -> "team_consistency_msg"
          [] id = "player_archetypes" -> "fig7"
          [] id = "high_scorers" -> "fig8"
          [] id = "top_games" -> "fig9"
          [] id = "most_successful_teams" -> "fig_success_teams"
          [] id = "dominant_seasons" -> "fig_dominant_seasons"
          [] id = "most_successful_players" -> "fig_success_players"]

\* C14: a returned call gives each of the fifteen declared outputs the
\* result computed for that output's name.
C14_OutputsGetTheirOwnResults ==
    Returned =>
        /\ Len(ret.outputs) = 15
        /\ \A k \in DOMAIN ret.outputs :
              ret.outputs[k].value.var = ResultNamed[ret.outputs[k].id]

\* what update_dashboard returns for the arguments of invocation i when
\* nothing else runs
ReturnsAlone(i) ==
    Results(tie_order,
            RaisesBeforeHighScorers(team_game_stats, player_game_stats,
                                    calls[i].season, calls[i].team,
                                    calls[i].player),
            FilterTeam(team_game_stats, calls[i].season, calls[i].team),
            FilterPlayer(player_game_stats, calls[i].season, calls[i].team,
                         calls[i].player),
            SetColumn(FilterPlayer(player_game_stats, calls[i].season,
                                   calls[i].team, calls[i].player),
                      "TWENTY_PLUS"),
            PlayerRankingsRaise(
                SetColumn(FilterPlayer(player_game_stats, calls[i].season,
                                       calls[i].team, calls[i].player),
                          "TWENTY_PLUS")))

\* C13: whatever the interleaving of the invocations in progress, the two
\* process-wide tables are as loaded, and an invocation that has finished
\* has returned what update_dashboard returns for its arguments when run
\* alone.
C13_InvocationsIsolated ==
    /\ team_game_stats.cols = TEAM_COLUMNS
    /\ player_game_stats.cols = PLAYER_COLUMNS
    /\ \A i \in CALLS :
          calls[i].pc = "done" => calls[i].out = ReturnsAlone(i)

\* two invocations with different selections have finished, and the first
\* finished while the second was between its filters
C13_Witness ==
    /\ calls[1].pc = "done" /\ calls[1].out.status = "returned"
    /\ calls[2].pc \in {"328", "332", "338"}
    /\ HasValues(calls[2].season) /\ ~HasValues(calls[1].season)
    /\ RowCount(calls[1].out.df_team) = RowCount(team_game_stats)
    /\ RowCount(frames[2].df_team) < RowCount(team_game_stats)

====
